---- MODULE Spec2Model ----
(***************************************************************************)
(* Rule engine with AST (ASSIGNMENT1/rule_Engine_with_AST.cpp).            *)
(*                                                                         *)
(* The heap of Node objects is a sequence of records; a shared_ptr<Node>   *)
(* is an index into it and nullptr is 0.  Nodes are only ever allocated at *)
(* the end of the heap (make_shared), never freed while reachable.         *)
(* db[name] is the document find_one returns from the "rules" collection   *)
(* for rule_name = name: the first one inserted under that name, or NoDoc  *)
(* when there is none.  Every operation records its call and its outcome   *)
(* in last.                                                                *)
(***************************************************************************)
EXTENDS Integers, Sequences, FiniteSets, TLC

VARIABLES heap, db, last

vars == <<heap, db, last>>

(* ------------------------------ bounds --------------------------------- *)

\* Largest number of Node objects alive at once.
MaxNodes == 3

(* --------------------------- data types -------------------------------- *)

\* std::shared_ptr<Node>() / nullptr.
nullptr == 0

\* enum class NodeType.
NodeType == {"OPERATOR", "OPERAND"}

\* Node::Node(t, val): both children start as nullptr.
Node(t, val) == [type |-> t, value |-> val, left |-> nullptr, right |-> nullptr]

\* Condition strings given to operand nodes.
Conditions == {"age > 30", "height > 180"}

\* Operator names given to a bare operator node; "XOR" is outside the
\* vocabulary of evaluateAST.
OperatorNames == {"XOR"}

\* Rule names used with saveRule / loadRule.
RuleNames == {"rule1"}

\* A map with no key.
NoData == [k \in {} |-> 0]

\* std::unordered_map<std::string, int> records handed to evaluateAST.
Facts == {NoData, "age" :> 20, "age" :> 35}

\* The pointers to live nodes.
Ptrs(h) == 1..Len(h)

\* bool as carried in an outcome.
Bool(b) == IF b THEN "true" ELSE "false"

(* --------------------------- evaluateAST ------------------------------- *)

\* evaluateAST with both operands of && and || always evaluated.
RECURSIVE evaluateAST_eager(_, _, _)
evaluateAST_eager(h, node, data) ==
  IF node = nullptr THEN [result |-> "false", calls |-> <<nullptr>>]
  ELSE IF h[node].type = "OPERAND" THEN
    IF h[node].value = "age > 30" THEN
      IF "age" \in DOMAIN data
        THEN [result |-> Bool(data["age"] > 30), calls |-> <<node>>]
        ELSE [result |-> "out_of_range", calls |-> <<node>>]
    ELSE [result |-> "false", calls |-> <<node>>]
  ELSE IF h[node].value \in {"AND", "OR"} THEN
    LET l == evaluateAST_eager(h, h[node].left, data)
        r == evaluateAST_eager(h, h[node].right, data)
        both == <<node>> \o l.calls \o r.calls
    IN  IF l.result = "out_of_range" THEN [result |-> "out_of_range", calls |-> both]
        ELSE IF r.result = "out_of_range" THEN [result |-> "out_of_range", calls |-> both]
        ELSE IF h[node].value = "AND"
          THEN [result |-> Bool(l.result = "true" /\ r.result = "true"), calls |-> both]
          ELSE [result |-> Bool(l.result = "true" \/ r.result = "true"), calls |-> both]
  ELSE [result |-> "false", calls |-> <<node>>]

\* evaluateAST whose AND / OR look at the left operand twice and never at
\* the right one.
RECURSIVE evaluateAST_leftOnly(_, _, _)
evaluateAST_leftOnly(h, node, data) ==
  IF node = nullptr THEN [result |-> "false", calls |-> <<nullptr>>]
  ELSE IF h[node].type = "OPERAND" THEN
    IF h[node].value = "age > 30" THEN
      IF "age" \in DOMAIN data
        THEN [result |-> Bool(data["age"] > 30), calls |-> <<node>>]
        ELSE [result |-> "out_of_range", calls |-> <<node>>]
    ELSE [result |-> "false", calls |-> <<node>>]
  ELSE IF h[node].value \in {"AND", "OR"} THEN
    LET l == evaluateAST_leftOnly(h, h[node].left, data)
    IN  [result |-> l.result, calls |-> <<node>> \o l.calls]
  ELSE [result |-> "false", calls |-> <<node>>]

\* bool evaluateAST(node, data).  result is "true" or "false" for a returned
\* bool and "out_of_range" when data.at("age") throws std::out_of_range;
\* calls lists, in call order, the node of every evaluateAST invocation made.
RECURSIVE evaluateAST(_, _, _)
evaluateAST(h, node, data) ==
  IF node = nullptr THEN [result |-> "false", calls |-> <<nullptr>>]
  ELSE IF h[node].type = "OPERAND" THEN
    IF h[node].value = "age > 30" THEN
      IF "age" \in DOMAIN data
        THEN [result |-> Bool(data["age"] > 30), calls |-> <<node>>]
        ELSE [result |-> "out_of_range", calls |-> <<node>>]
    ELSE [result |-> "false", calls |-> <<node>>]
  ELSE IF h[node].value = "AND" THEN
    LET l == evaluateAST(h, h[node].left, data)
    IN  IF l.result = "true"
          THEN LET r == evaluateAST(h, h[node].right, data)
               IN  [result |-> r.result, calls |-> <<node>> \o l.calls \o r.calls]
          ELSE [result |-> l.result, calls |-> <<node>> \o l.calls]
  ELSE IF h[node].value = "OR" THEN
    LET l == evaluateAST(h, h[node].left, data)
    IN  IF l.result = "false"
          THEN LET r == evaluateAST(h, h[node].right, data)
               IN  [result |-> r.result, calls |-> <<node>> \o l.calls \o r.calls]
          ELSE [result |-> l.result, calls |-> <<node>> \o l.calls]
  ELSE [result |-> "false", calls |-> <<node>>]

(* ------------------------- toBSON / parseBSON -------------------------- *)

\* toBSON that never writes the "right" key.
RECURSIVE toBSON_noRight(_, _)
toBSON_noRight(h, node) ==
  LET base == [type |-> IF h[node].type = "OPERATOR" THEN "operator" ELSE "operand",
               value |-> h[node].value]
  IN  IF h[node].left # nullptr
        THEN ("left" :> toBSON_noRight(h, h[node].left)) @@ base
        ELSE base

\* bsoncxx::document::value toBSON(node): keys type and value, and the keys
\* left / right only for the children that are present.
RECURSIVE toBSON(_, _)
toBSON(h, node) ==
  LET base == [type |-> IF h[node].type = "OPERATOR" THEN "operator" ELSE "operand",
               value |-> h[node].value]
      withLeft == IF h[node].left # nullptr
                    THEN ("left" :> toBSON(h, h[node].left)) @@ base
                    ELSE base
  IN  IF h[node].right # nullptr
        THEN ("right" :> toBSON(h, h[node].right)) @@ withLeft
        ELSE withLeft

\* RuleEngineDB::parseBSON(doc): the node is allocated first, then the left
\* and the right sub-documents are parsed and linked.  Returns the new heap
\* and the pointer to the parsed node.
RECURSIVE parseBSON(_, _)
parseBSON(h, doc) ==
  LET type == IF doc.type = "operator" THEN "OPERATOR" ELSE "OPERAND"
      node == Len(h) + 1
      h0 == Append(h, Node(type, doc.value))
      h1 == IF "left" \in DOMAIN doc
              THEN LET l == parseBSON(h0, doc.left)
                   IN  [l.heap EXCEPT ![node].left = l.root]
              ELSE h0
      h2 == IF "right" \in DOMAIN doc
              THEN LET r == parseBSON(h1, doc.right)
                   IN  [r.heap EXCEPT ![node].right = r.root]
              ELSE h1
  IN  [heap |-> h2, root |-> node]

(* ---------------------------- combineRules ----------------------------- *)

\* The loop of combineRules with the children of a new root swapped.
RECURSIVE combineLoop_rightLeaning(_, _, _, _)
combineLoop_rightLeaning(h, root, rules, i) ==
  IF i > Len(rules) THEN [heap |-> h, root |-> root]
  ELSE IF h[root].left = nullptr
    THEN combineLoop_rightLeaning([h EXCEPT ![root].left = rules[i]], root, rules, i + 1)
  ELSE IF h[root].right = nullptr
    THEN combineLoop_rightLeaning([h EXCEPT ![root].right = rules[i]], root, rules, i + 1)
  ELSE LET newRoot == Len(h) + 1
           h1 == Append(h, [Node("OPERATOR", "AND") EXCEPT
                              !.left = rules[i], !.right = root])
       IN  combineLoop_rightLeaning(h1, newRoot, rules, i + 1)

\* The body of the for loop of combineRules for rules[i..].
RECURSIVE combineLoop(_, _, _, _)
combineLoop(h, root, rules, i) ==
  IF i > Len(rules) THEN [heap |-> h, root |-> root]
  ELSE IF h[root].left = nullptr
    THEN combineLoop([h EXCEPT ![root].left = rules[i]], root, rules, i + 1)
  ELSE IF h[root].right = nullptr
    THEN combineLoop([h EXCEPT ![root].right = rules[i]], root, rules, i + 1)
  ELSE LET newRoot == Len(h) + 1
           h1 == Append(h, [Node("OPERATOR", "AND") EXCEPT
                              !.left = root, !.right = rules[i]])
       IN  combineLoop(h1, newRoot, rules, i + 1)

\* combineRules(rules): a fresh AND root, then the loop.
combineRules(h, rules) ==
  combineLoop(Append(h, Node("OPERATOR", "AND")), Len(h) + 1, rules, 1)

(* ------------------------------- state --------------------------------- *)

\* The record every operation leaves in last.
Call(op, node, rules, data, doc, result) ==
  [op |-> op, node |-> node, rules |-> rules, data |-> data, doc |-> doc,
   result |-> result]

NoDoc == [type |-> "none"]

\* Nodes that are the left or right child of some node.
Children(h) == {h[p].left : p \in Ptrs(h)} \cup {h[p].right : p \in Ptrs(h)}

\* All vectors of pointers to live nodes that are short enough for the
\* nodes combineRules allocates for them to fit under MaxNodes.
RuleVectors(h) ==
  UNION {[1..k -> Ptrs(h)] : k \in {j \in 0..MaxNodes : Len(h) + j - 1 <= MaxNodes}}

\* Documents already present in the rules collection when the program
\* connects: written by another client, so of any type string.
ForeignDocs ==
  { [type |-> "bogus", value |-> "age > 30"],
    [type |-> "operator", value |-> "OR",
     left |-> [type |-> "operand", value |-> "age > 30"],
     right |-> [type |-> "bogus", value |-> "AND"]],
    [type |-> "operator", value |-> "XOR",
     left |-> [type |-> "operand", value |-> "age > 30"]] }

Init ==
  /\ heap = <<>>
  /\ db = [name \in RuleNames |-> NoDoc]
  /\ last = Call("init", nullptr, <<>>, NoData, NoDoc, "none")

\* The program started against a collection that may already hold a document.
InitStore ==
  /\ heap = <<>>
  /\ db \in [RuleNames -> ForeignDocs \cup {NoDoc}]
  /\ last = Call("init", nullptr, <<>>, NoData, NoDoc, "none")

(* ------------------------------ actions -------------------------------- *)

\* std::make_shared<Node>(t, val)
makeNode(t, val) ==
  /\ Len(heap) < MaxNodes
  /\ heap' = Append(heap, Node(t, val))
  /\ last' = Call("Node", Len(heap) + 1, <<>>, NoData, NoDoc, "ok")
  /\ UNCHANGED db

\* An operator node built the way createRuleAST builds its root: the node is
\* made, then left and right are assigned.  The children are two distinct
\* trees that no node owns yet.
makeOperator(op, l, r) ==
  /\ Len(heap) < MaxNodes
  /\ l # r
  /\ l \notin Children(heap)
  /\ r \notin Children(heap)
  /\ heap' = Append(heap, [Node("OPERATOR", op) EXCEPT !.left = l, !.right = r])
  /\ last' = Call("makeOperator", Len(heap) + 1, <<>>, NoData, NoDoc, "ok")
  /\ UNCHANGED db

\* createRuleAST(rule): the fixed placeholder tree, whatever the rule string.
createRuleAST ==
  /\ Len(heap) + 3 <= MaxNodes
  /\ LET root == Len(heap) + 1
     IN  /\ heap' = heap \o
                    << [Node("OPERATOR", "AND") EXCEPT !.left = root + 1, !.right = root + 2],
                       Node("OPERAND", "age > 30"),
                       Node("OPERAND", "department = 'Sales'") >>
         /\ last' = Call("createRuleAST", root, <<>>, NoData, NoDoc, "ok")
  /\ UNCHANGED db

\* combineRules(rules)
combine(rules) ==
  LET c == combineRules(heap, rules)
  IN  /\ Len(c.heap) <= MaxNodes
      /\ heap' = c.heap
      /\ last' = Call("combineRules", c.root, rules, NoData, NoDoc, "ok")
      /\ UNCHANGED db

\* RuleEngineDB::saveRule(rule_name, root)
saveRule(rule_name, root) ==
  /\ db' = IF db[rule_name] = NoDoc
             THEN [db EXCEPT ![rule_name] = toBSON(heap, root)]
             ELSE db
  /\ last' = Call("saveRule", root, <<>>, NoData, toBSON(heap, root), "ok")
  /\ UNCHANGED heap

\* RuleEngineDB::loadRule(rule_name), a document of that name being stored.
loadRuleFound(rule_name) ==
  /\ db[rule_name] # NoDoc
  /\ LET p == parseBSON(heap, db[rule_name])
     IN  /\ Len(p.heap) <= MaxNodes
         /\ heap' = p.heap
         /\ last' = Call("loadRule", p.root, <<>>, NoData, db[rule_name], "ok")
  /\ UNCHANGED db

\* RuleEngineDB::loadRule(rule_name), no document of that name: nullptr.
loadRuleNotFound(rule_name) ==
  /\ db[rule_name] = NoDoc
  /\ last' = Call("loadRule", nullptr, <<>>, NoData, NoDoc, "not_found")
  /\ UNCHANGED <<heap, db>>

\* evaluateAST(node, data)
evaluate(node, data) ==
  /\ last' = Call("evaluateAST", node, <<>>, data, NoDoc,
                  evaluateAST(heap, node, data).result)
  /\ UNCHANGED <<heap, db>>

Next ==
  \/ \E t \in {"OPERAND"}, val \in Conditions : makeNode(t, val)
  \/ \E t \in {"OPERATOR"}, val \in OperatorNames : makeNode(t, val)
  \/ \E op \in {"AND", "OR"}, l \in Ptrs(heap), r \in Ptrs(heap) : makeOperator(op, l, r)
  \/ createRuleAST
  \/ \E rules \in RuleVectors(heap) : combine(rules)
  \/ \E rule_name \in RuleNames, root \in Ptrs(heap) : saveRule(rule_name, root)
  \/ \E rule_name \in RuleNames : loadRuleFound(rule_name)
  \/ \E rule_name \in RuleNames : loadRuleNotFound(rule_name)
  \/ \E node \in Ptrs(heap) \cup {nullptr}, data \in Facts : evaluate(node, data)

Spec == Init /\ [][Next]_vars

SpecStore == InitStore /\ [][Next]_vars

(* ------------------------- helpers of the claims ----------------------- *)

\* The two trees have the same node kinds, values and children.
RECURSIVE SameTree(_, _, _, _)
SameTree(h1, n1, h2, n2) ==
  IF n1 = nullptr \/ n2 = nullptr THEN n1 = n2
  ELSE /\ h1[n1].type = h2[n2].type
       /\ h1[n1].value = h2[n2].value
       /\ SameTree(h1, h1[n1].left, h2, h2[n2].left)
       /\ SameTree(h1, h1[n1].right, h2, h2[n2].right)

\* The outcome of evaluating a tree.
Outcome(h, node, data) == evaluateAST(h, node, data).result

\* Both trees evaluate to the same outcome against every fact record.
SameOutcomes(h1, n1, h2, n2) ==
  \A data \in Facts : Outcome(h1, n1, data) = Outcome(h2, n2, data)

\* decode(encode(T)) for the tree at node.
RoundTrip(h, node) == parseBSON(h, toBSON(h, node))

\* The orderings of a vector of rules.
Orderings(rules) ==
  {[i \in 1..Len(rules) |-> rules[pi[i]]] : pi \in Permutations(1..Len(rules))}

\* The field a condition "<field> <op> <literal>" names.
Field(condition) ==
  CASE condition = "age > 30" -> "age"
    [] condition = "height > 180" -> "height"
    [] condition = "department = 'Sales'" -> "department"
    [] OTHER -> "unknown"

\* The document, at some depth, has a type other than operator and operand.
RECURSIVE HasUnknownType(_)
HasUnknownType(doc) ==
  \/ doc.type \notin {"operator", "operand"}
  \/ ("left" \in DOMAIN doc /\ HasUnknownType(doc.left))
  \/ ("right" \in DOMAIN doc /\ HasUnknownType(doc.right))

\* The positions (parent, side) that hold node as a child.
ParentPositions(h, node) ==
  {<<p, "left">> : p \in {q \in Ptrs(h) : h[q].left = node}}
    \cup {<<p, "right">> : p \in {q \in Ptrs(h) : h[q].right = node}}

\* Evaluating the tree at node against data reaches a malformed place: a
\* null node or an operator whose value is neither AND nor OR.
ReachesMalformed(h, node, data) ==
  LET calls == evaluateAST(h, node, data).calls
  IN  \E i \in 1..Len(calls) :
        \/ calls[i] = nullptr
        \/ /\ h[calls[i]].type = "OPERATOR"
           /\ h[calls[i]].value \notin {"AND", "OR"}

(* -------------------------------- claims ------------------------------- *)

\* C1: round trip.  For every tree T of the heap, parseBSON(toBSON(T)) has
\* the same node kinds, values and left/right children as T and evaluates to
\* the same outcome against every fact record; and every tree loadRule
\* returns is such a copy of a tree built before it.
C1_RoundTrip ==
  /\ \A node \in Ptrs(heap) :
       LET p == RoundTrip(heap, node)
       IN  /\ SameTree(p.heap, p.root, heap, node)
           /\ SameOutcomes(p.heap, p.root, heap, node)
  /\ (last.op = "loadRule" /\ last.node # nullptr) =>
       \E node \in 1..(last.node - 1) :
         /\ last.doc = toBSON(heap, node)
         /\ SameTree(heap, last.node, heap, node)
         /\ SameOutcomes(heap, last.node, heap, node)

\* A saved operand "age > 30" has been loaded back and evaluates to true
\* where the facts say so.
C1_Witness ==
  /\ last.op = "loadRule"
  /\ last.node # nullptr
  /\ heap[last.node].value = "age > 30"
  /\ Outcome(heap, last.node, "age" :> 35) = "true"

\* C2: short circuit.  For an AND node whose left child evaluates to false
\* the result is false and the only evaluateAST calls made are the node's own
\* and those of the left child: the right child is never evaluated and no
\* error of the right child is signalled.  Symmetrically for an OR node whose
\* left child evaluates to true, with result true.
C2_ShortCircuit ==
  /\ \A node \in Ptrs(heap), data \in Facts :
       LET l == evaluateAST(heap, heap[node].left, data)
           e == evaluateAST(heap, node, data)
       IN  /\ (heap[node].type = "OPERATOR" /\ heap[node].value = "AND"
                 /\ l.result = "false")
                => (e.result = "false" /\ e.calls = <<node>> \o l.calls)
           /\ (heap[node].type = "OPERATOR" /\ heap[node].value = "OR"
                 /\ l.result = "true")
                => (e.result = "true" /\ e.calls = <<node>> \o l.calls)
  /\ (last.op = "evaluateAST" /\ last.node # nullptr) =>
       LET node == last.node
           l == evaluateAST(heap, heap[node].left, last.data)
       IN  /\ (heap[node].type = "OPERATOR" /\ heap[node].value = "AND"
                 /\ l.result = "false") => last.result = "false"
           /\ (heap[node].type = "OPERATOR" /\ heap[node].value = "OR"
                 /\ l.result = "true") => last.result = "true"

\* An AND node has been evaluated to false although its right child alone
\* throws for the same facts, its left child being false.
C2_Witness ==
  /\ last.op = "evaluateAST"
  /\ last.node # nullptr
  /\ heap[last.node].type = "OPERATOR"
  /\ heap[last.node].value = "AND"
  /\ heap[last.node].left # nullptr
  /\ heap[last.node].right # nullptr
  /\ Outcome(heap, heap[last.node].left, last.data) = "false"
  /\ Outcome(heap, heap[last.node].right, last.data) = "out_of_range"
  /\ last.result = "false"

\* C3 as stated: after combineRules(p) of a non-empty p, every ordering q of
\* p and every fact record, records lacking a field included, give the same
\* outcome for combineRules(q) as for combineRules(p).
C3_OrderIndependent ==
  (last.op = "combineRules" /\ Len(last.rules) >= 1) =>
    \A q \in Orderings(last.rules), data \in Facts :
      LET c == combineRules(heap, q)
      IN  Outcome(c.heap, c.root, data) = Outcome(heap, last.node, data)

\* C3 amended: the same, for the fact records against which every rule of p
\* evaluates to a boolean on its own; the two combined trees then both
\* evaluate to a boolean, and to the same one.
C3_OrderIndependentNoError ==
  (last.op = "combineRules" /\ Len(last.rules) >= 1) =>
    \A q \in Orderings(last.rules), data \in Facts :
      (\A i \in 1..Len(last.rules) :
         Outcome(heap, last.rules[i], data) \in {"true", "false"})
      => LET c == combineRules(heap, q)
         IN  /\ Outcome(heap, last.node, data) \in {"true", "false"}
             /\ Outcome(c.heap, c.root, data) = Outcome(heap, last.node, data)

\* Two different rules have been combined, one true and one false for some
\* fact record that makes neither throw.
C3_Witness ==
  /\ last.op = "combineRules"
  /\ Len(last.rules) = 2
  /\ last.rules[1] # last.rules[2]
  /\ \E data \in Facts :
       /\ Outcome(heap, last.rules[1], data) = "true"
       /\ Outcome(heap, last.rules[2], data) = "false"

\* C4: combineRules of a single rule R returns R itself, with no wrapping
\* AND node, and so evaluates as R does against every fact record.
C4_SingleRuleUnchanged ==
  (last.op = "combineRules" /\ Len(last.rules) = 1) =>
    /\ last.node = last.rules[1]
    /\ SameOutcomes(heap, last.node, heap, last.rules[1])

\* C5: combineRules of no rule signals EmptyRuleSet and returns no tree.
C5_EmptyCombineFails ==
  (last.op = "combineRules" /\ last.rules = <<>>) =>
    /\ last.result = "EmptyRuleSet"
    /\ last.node = nullptr

\* C6: evaluating an operand whose condition names a field that the fact
\* record lacks signals the missing fact (the exception of data.at) and
\* never returns false.
C6_MissingFactIsError ==
  (/\ last.op = "evaluateAST"
   /\ last.node # nullptr
   /\ heap[last.node].type = "OPERAND"
   /\ Field(heap[last.node].value) \notin DOMAIN last.data)
  => last.result = "out_of_range"

\* C7: an evaluation that reaches a null node or an operator node whose
\* value is neither AND nor OR signals InvalidTree and returns no boolean.
C7_MalformedTreeRejected ==
  (last.op = "evaluateAST" /\ ReachesMalformed(heap, last.node, last.data))
  => last.result = "InvalidTree"

\* C8: loading a document that has, at any depth, a type other than operator
\* and operand signals CorruptDocument and produces no node.
C8_UnknownTypeRejected ==
  (last.op = "loadRule" /\ last.doc # NoDoc /\ HasUnknownType(last.doc))
  => (last.result = "CorruptDocument" /\ last.node = nullptr)

\* C9: no node is the left or right child of more than one parent position.
C9_NoSharing ==
  \A node \in Ptrs(heap) : Cardinality(ParentPositions(heap, node)) <= 1

\* C10: a combineRules call on n >= 2 rules allocates exactly n-1 nodes, all
\* operator nodes of value AND, left-leaning: the first has rules[1] as left
\* and rules[2] as right, the j-th has the (j-1)-th as left and rules[j+1]
\* as right, the last one is the result; so every rule of the vector is a
\* whole sub-tree at exactly one place, and no node that existed before the
\* call is changed.
C10_CombineShapeAndFrame ==
  [][ (last'.op = "combineRules" /\ heap' # heap /\ Len(last'.rules) >= 2) =>
        LET rules == last'.rules
            n == Len(rules)
            base == Len(heap)
        IN  /\ Len(heap') = base + n - 1
            /\ last'.node = base + n - 1
            /\ \A j \in 1..(n - 1) :
                 /\ heap'[base + j].type = "OPERATOR"
                 /\ heap'[base + j].value = "AND"
                 /\ heap'[base + j].left = (IF j = 1 THEN rules[1] ELSE base + j - 1)
                 /\ heap'[base + j].right = rules[j + 1]
            /\ \A i \in 1..base : heap'[i] = heap[i] ]_vars

\* Three rules have been combined: the result's left child is the AND node
\* made for the first two.
C10_Witness ==
  /\ last.op = "combineRules"
  /\ Len(last.rules) = 3
  /\ heap[last.node].right = last.rules[3]
  /\ heap[heap[last.node].left].left = last.rules[1]
  /\ heap[heap[last.node].left].right = last.rules[2]

====
